---- MODULE Spec2Model ----
(***************************************************************************)
(* Parallel-tempering simulated annealing (AbstractSA.py): N MPI ranks,    *)
(* each running PTSA.run on its own replica, coupled once per outer        *)
(* iteration by Barrier / gather / exchange sweep on rank 0 / scatter.     *)
(*                                                                         *)
(* Numbers.  Temperatures and exponents are exact rationals <<n, d>> in    *)
(* lowest terms (d > 0); costs are integers.  A uniform draw that is       *)
(* compared with an exponential, exp(e) > u, is represented by its         *)
(* logarithm l = ln u in [-inf, 0), so that the comparison is e > l; the   *)
(* draw u = 0 is l = -inf.  The draw compared with theta is a rational.    *)
(* Spec, SweepSpec and FaultSpec leave floating-point rounding out;       *)
(* RateSpec evaluates accept_rate of one pair in IEEE 754 binary64.       *)
(***************************************************************************)
EXTENDS Integers, Sequences, FiniteSets, Bags, TLC

(* ---------------------------- bounds ----------------------------------- *)
MaxN == 2           \* a run has 1..MaxN MPI ranks (replicas)
Iters == 2          \* self._iters: outer iterations
Reps == 1           \* self._reps: Metropolis trials per step
MaxState == 1       \* search states are 0..MaxState
MaxSweepN == 3      \* SweepSpec: the gathered list has 1..MaxSweepN entries

States == 0 .. MaxState

(* ---------------------------- rationals -------------------------------- *)
RECURSIVE GCD(_, _)
GCD(a, b) == IF b = 0 THEN a ELSE GCD(b, a % b)

Abs(a) == IF a < 0 THEN -a ELSE a

Norm(n, d) ==
    LET g == GCD(Abs(n), Abs(d))
        s == IF d < 0 THEN -1 ELSE 1
    IN  <<s * (n \div g), s * (d \div g)>>

RInt(k) == <<k, 1>>
RAdd(a, b) == Norm(a[1] * b[2] + b[1] * a[2], a[2] * b[2])
RNeg(a) == <<-a[1], a[2]>>
RMul(a, b) == Norm(a[1] * b[1], a[2] * b[2])
RDiv(a, b) == Norm(a[1] * b[2], a[2] * b[1])
RLess(a, b) == a[1] * b[2] < b[1] * a[2]

(* ln u of the draw u = 0 *)
NegInf == <<-1, 0>>

(* exp(e) > u, with the draw u given as l = ln u *)
ExpGreater(e, l) == IF l[2] = 0 THEN TRUE ELSE RLess(l, e)

(* ---------------------------- parameters ------------------------------- *)
(* obj: the caller-supplied objective, a pure function of the state *)
obj(s) == (2 * s + 1) % 3

(* x0: the initial state every replica is constructed with *)
x0 == 0

(* T_i per rank is drawn from TInits(n): all equal, or ascending in the   *)
(* rank; decay from Decays; theta (a rational) from Thetas                *)
TInits(n) ==
    { [r \in 0 .. (n - 1) |-> RInt(1)],
      [r \in 0 .. (n - 1) |-> RInt(r + 1)] }
Decays == {<<1, 2>>}
Thetas == {RInt(0), RInt(1)}

(* np.random.random() compared with theta: the draw itself *)
UDraws == {RInt(0), <<3, 4>>}

(* np.random.rand() / np.random.random() compared with an exponential:    *)
(* the logarithm of the draw                                               *)
LogDraws == {NegInf, <<-1, 1>>, <<-1, 100>>}

(* ---------------------------- state ------------------------------------ *)
VARIABLES
    size,       \* COMM.Get_size(): the number of ranks of the run
    pk_bound,   \* whether the global name pk resolves when save_var runs
    theta,      \* self.theta of rank 0
    decay,      \* self._decay
    T_f,        \* self.T_f
    T_i,        \* T_i[r]: self.T_i of rank r
    pc,         \* pc[r]: position of rank r in PTSA.run
    it,         \* it[r]: the local variable it of run
    i,          \* i[r]: the loop variable of step
    x, y, best_x, best_y, T,   \* the replica's fields, per rank
    bcount,     \* bcount[r]: number of Barrier calls rank r has entered
    gch,        \* gch[r]: summaries rank r sent to gather, not yet received
    sch,        \* sch[r]: temperatures scattered to rank r, not yet received
    msg,        \* rank 0: result of COMM.gather
    Tlist,      \* rank 0: the list T of the sweep
    fx,         \* rank 0: the list fx of the sweep
    index,      \* rank 0: np.argsort(T)
    p,          \* rank 0: the loop variable i of the sweep
    last,       \* rank 0: the tests and the operands T[sol1], T[sol2] of the last pass
    data,       \* rank 0: the list passed to COMM.scatter
    saves       \* saves[r]: number of completed save_var calls

vars == <<size, pk_bound, theta, decay, T_f, T_i, pc, it, i, x, y, best_x, best_y, T, bcount,
          gch, sch, msg, Tlist, fx, index, p, last, data, saves>>

replica == <<x, y, best_x, best_y>>
params == <<size, pk_bound, theta, decay, T_f, T_i>>

Ranks == 0 .. (size - 1)
root == <<msg, Tlist, fx, index, p, last, data>>

NoPass == [attempted |-> FALSE, accepted |-> FALSE, T1 |-> RInt(0), T2 |-> RInt(0)]

(* PTSA.__init__ on every rank, then PTSA.run up to its loop *)
PTSAInit ==
    /\ size \in 1 .. MaxN
    /\ pk_bound \in BOOLEAN
    /\ theta \in Thetas
    /\ decay \in Decays
    /\ T_f = RInt(1)
    /\ pc = [r \in Ranks |-> "loop"]
    /\ it = [r \in Ranks |-> 0]
    /\ i = [r \in Ranks |-> 0]
    /\ x = [r \in Ranks |-> x0]
    /\ y = [r \in Ranks |-> obj(x0)]
    /\ best_x = [r \in Ranks |-> x0]
    /\ best_y = [r \in Ranks |-> obj(x0)]
    /\ T \in TInits(size)
    /\ T_i = T
    /\ bcount = [r \in Ranks |-> 0]
    /\ gch = [r \in Ranks |-> <<>>]
    /\ sch = [r \in Ranks |-> <<>>]
    /\ msg = <<>>
    /\ Tlist = <<>>
    /\ fx = <<>>
    /\ index = <<>>
    /\ p = 0
    /\ last = NoPass
    /\ data = <<>>
    /\ saves = [r \in Ranks |-> 0]

(* SA.__init__ on a single process, then SA.run up to its loop; T_f is    *)
(* drawn from SATfs                                                        *)
SATfs == {<<1, 4>>, RInt(1), RInt(2)}

SAInit ==
    /\ size = 1
    /\ pk_bound \in BOOLEAN
    /\ theta = RInt(0)
    /\ decay \in Decays
    /\ T_f \in SATfs
    /\ pc = [r \in Ranks |-> "sa_loop"]
    /\ it = [r \in Ranks |-> 0]
    /\ i = [r \in Ranks |-> 0]
    /\ x = [r \in Ranks |-> x0]
    /\ y = [r \in Ranks |-> obj(x0)]
    /\ best_x = [r \in Ranks |-> x0]
    /\ best_y = [r \in Ranks |-> obj(x0)]
    /\ T \in TInits(size)
    /\ T_i = T
    /\ bcount = [r \in Ranks |-> 0]
    /\ gch = [r \in Ranks |-> <<>>]
    /\ sch = [r \in Ranks |-> <<>>]
    /\ msg = <<>>
    /\ Tlist = <<>>
    /\ fx = <<>>
    /\ index = <<>>
    /\ p = 0
    /\ last = NoPass
    /\ data = <<>>
    /\ saves = [r \in Ranks |-> 0]

Init == PTSAInit \/ SAInit

(* ---------------------------- Metropolis trial ------------------------- *)
(* mutant of Accept: only a candidate that lowers the cost is accepted *)
AcceptDownhillOnly(df, t, l) == df < 0

(* df < 0 or np.exp(-df / self.T) > np.random.rand(), the draw given by   *)
(* its logarithm l                                                         *)
Accept(df, t, l) == df < 0 \/ ExpGreater(RDiv(RInt(-df), t), l)

(* mutant of Improves: the comparison the wrong way round *)
ImprovesFlipped(y_new, by) == y_new > by

(* y_new < self.best_y *)
Improves(y_new, by) == y_new < by

(* mutant of TrialBody: an accepted candidate replaces x, and y only when *)
(* it also replaces the best                                               *)
TrialBodyStaleCost(rep, x_new, l) ==
    LET y_new == obj(x_new)
        df == y_new - rep.y
    IN  IF Accept(df, rep.T, l)
        THEN IF Improves(y_new, rep.best_y)
             THEN [rep EXCEPT !.x = x_new, !.y = y_new,
                              !.best_x = x_new, !.best_y = y_new]
             ELSE [rep EXCEPT !.x = x_new]
        ELSE rep

(* mutant of TrialBody: the best state is replaced on every acceptance *)
TrialBodyNoTest(rep, x_new, l) ==
    LET y_new == obj(x_new)
        df == y_new - rep.y
    IN  IF Accept(df, rep.T, l)
        THEN [rep EXCEPT !.x = x_new, !.y = y_new,
                         !.best_x = x_new, !.best_y = y_new]
        ELSE rep

(* one pass of the body of the for loop of step, on the replica           *)
(* rep = [x, y, best_x, best_y, T] with candidate x_new and draw l        *)
TrialBody(rep, x_new, l) ==
    LET y_new == obj(x_new)
        df == y_new - rep.y
    IN  IF Accept(df, rep.T, l)
        THEN IF Improves(y_new, rep.best_y)
             THEN [rep EXCEPT !.x = x_new, !.y = y_new,
                              !.best_x = x_new, !.best_y = y_new]
             ELSE [rep EXCEPT !.x = x_new, !.y = y_new]
        ELSE rep

Replica(r) ==
    [x |-> x[r], y |-> y[r], best_x |-> best_x[r], best_y |-> best_y[r], T |-> T[r]]

(* ---------------------------- exchange sweep --------------------------- *)
(* mutant of ArgSorts: the temperatures are listed in descending order *)
ArgSortsDescending(Tl) ==
    {perm \in [DOMAIN Tl -> DOMAIN Tl] :
        /\ \A a, b \in DOMAIN Tl : a # b => perm[a] # perm[b]
        /\ \A a, b \in DOMAIN Tl : a < b => ~RLess(Tl[perm[a]], Tl[perm[b]])}

(* np.argsort(T): any permutation of the ranks that lists the             *)
(* temperatures in ascending order (the order of equal keys is not fixed  *)
(* by the default sort kind)                                               *)
ArgSorts(Tl) ==
    {perm \in [DOMAIN Tl -> DOMAIN Tl] :
        /\ \A a, b \in DOMAIN Tl : a # b => perm[a] # perm[b]
        /\ \A a, b \in DOMAIN Tl : a < b => ~RLess(Tl[perm[b]], Tl[perm[a]])}

(* mutant of Exponent: the two best costs take each other's place *)
ExponentCrossed(fx1, fx2, T1, T2) ==
    RAdd(RAdd(RAdd(RNeg(RDiv(RInt(fx1), T1)), RNeg(RDiv(RInt(fx2), T2))),
              RDiv(RInt(fx1), T2)),
         RDiv(RInt(fx2), T1))

(* the exponent of accept_rate, term by term as written *)
Exponent(fx1, fx2, T1, T2) ==
    RAdd(RAdd(RAdd(RNeg(RDiv(RInt(fx2), T1)), RNeg(RDiv(RInt(fx1), T2))),
              RDiv(RInt(fx2), T2)),
         RDiv(RInt(fx1), T1))

(* np.random.random() > self.theta *)
Attempt(u, th) == RLess(th, u)

(* mutant of Swap: T[sol1] = T[sol2]; T[sol2] = T[sol1], one after the    *)
(* other                                                                   *)
SwapSequential(Tl, sol1, sol2) == [Tl EXCEPT ![sol1] = Tl[sol2]]

(* mutant of Swap: T[sol1], T[sol2] = T[sol1], T[sol2] *)
SwapLost(Tl, sol1, sol2) == Tl

(* T[sol1], T[sol2] = T[sol2], T[sol1] *)
Swap(Tl, sol1, sol2) == [Tl EXCEPT ![sol1] = Tl[sol2], ![sol2] = Tl[sol1]]

(* the tests of the body of the for loop for pair p: u is the draw       *)
(* compared with theta, l the logarithm of the draw compared with         *)
(* accept_rate                                                             *)
Accepted(Tl, fxl, idx, q, th, u, l) ==
    /\ Attempt(u, th)
    /\ ExpGreater(Exponent(fxl[idx[q]], fxl[idx[q + 1]],
                           Tl[idx[q]], Tl[idx[q + 1]]), l)

(* the list T after the body of the for loop for pair p *)
PairBody(Tl, fxl, idx, q, th, u, l) ==
    IF Accepted(Tl, fxl, idx, q, th, u, l)
    THEN Swap(Tl, idx[q], idx[q + 1])
    ELSE Tl

(* ---------------------------- PTSA.run, per rank ----------------------- *)
(* while it < self._iters: ... self.step() up to MPI.COMM_WORLD.Barrier() *)
BarrierEnter(r) ==
    /\ pc[r] = "loop"
    /\ it[r] < Iters
    /\ bcount' = [bcount EXCEPT ![r] = @ + 1]
    /\ pc' = [pc EXCEPT ![r] = "barrier"]
    /\ UNCHANGED <<params, it, i, replica, T, gch, sch, root, saves>>

(* mutant of BarrierExit: the call returns without waiting for the others *)
BarrierExitNoWait(r) ==
    /\ pc[r] = "barrier"
    /\ pc' = [pc EXCEPT ![r] = "trial"]
    /\ i' = [i EXCEPT ![r] = 0]
    /\ UNCHANGED <<params, it, replica, T, bcount, gch, sch, root, saves>>

(* Barrier() returns once every rank has entered it; for i in range(...)  *)
BarrierExit(r) ==
    /\ pc[r] = "barrier"
    /\ \A q \in Ranks : bcount[q] >= bcount[r]
    /\ pc' = [pc EXCEPT ![r] = "trial"]
    /\ i' = [i EXCEPT ![r] = 0]
    /\ UNCHANGED <<params, it, replica, T, bcount, gch, sch, root, saves>>

(* one Metropolis trial of step *)
Trial(r) ==
    /\ pc[r] = "trial"
    /\ i[r] < Reps
    /\ \E x_new \in States, l \in LogDraws :
         LET rep == TrialBody(Replica(r), x_new, l)
         IN  /\ x' = [x EXCEPT ![r] = rep.x]
             /\ y' = [y EXCEPT ![r] = rep.y]
             /\ best_x' = [best_x EXCEPT ![r] = rep.best_x]
             /\ best_y' = [best_y EXCEPT ![r] = rep.best_y]
    /\ i' = [i EXCEPT ![r] = @ + 1]
    /\ UNCHANGED <<params, pc, it, T, bcount, gch, sch, root, saves>>

(* self.transition() or self.obj(x_new) raises: the rank leaves run *)
TrialFault(r) ==
    /\ pc[r] = "trial"
    /\ i[r] < Reps
    /\ pc' = [pc EXCEPT ![r] = "faulted"]
    /\ UNCHANGED <<params, it, i, replica, T, bcount, gch, sch, root, saves>>

(* data = [self.T, self.best_y, self.rank]; k records the value of it     *)
(* when the summary was built                                              *)
Summary(r) == [T |-> T[r], best_y |-> best_y[r], rank |-> r, k |-> it[r]]

(* mutant of GatherSend: the summary is sent without waiting for the for *)
(* loop of step to end                                                     *)
GatherSendEarly(r) ==
    /\ r # 0
    /\ pc[r] = "trial"
    /\ gch' = [gch EXCEPT ![r] = Append(@, Summary(r))]
    /\ it' = [it EXCEPT ![r] = @ + 1]
    /\ pc' = [pc EXCEPT ![r] = "scatter"]
    /\ UNCHANGED <<params, i, replica, T, bcount, sch, root, saves>>

(* COMM.gather on a rank other than 0, data = None, it += 1 *)
GatherSend(r) ==
    /\ r # 0
    /\ pc[r] = "trial"
    /\ i[r] >= Reps
    /\ gch' = [gch EXCEPT ![r] = Append(@, Summary(r))]
    /\ it' = [it EXCEPT ![r] = @ + 1]
    /\ pc' = [pc EXCEPT ![r] = "scatter"]
    /\ UNCHANGED <<params, i, replica, T, bcount, sch, root, saves>>

(* mutant of GatherRoot: the summaries are read but left in the channel *)
GatherRootPeek ==
    /\ pc[0] = "trial"
    /\ i[0] >= Reps
    /\ \A r \in Ranks \ {0} : gch[r] # <<>>
    /\ msg' = [r \in Ranks |-> IF r = 0 THEN Summary(0) ELSE Head(gch[r])]
    /\ pc' = [pc EXCEPT ![0] = "decide"]
    /\ UNCHANGED <<params, it, i, replica, T, bcount, gch, sch, Tlist, fx, index, p,
                   last, data, saves>>

(* mutant of GatherRoot: rank 0 does not wait for a summary that has not *)
(* arrived and goes on with the rank's current values                      *)
GatherRootNoWait ==
    /\ pc[0] = "trial"
    /\ i[0] >= Reps
    /\ msg' = [r \in Ranks |-> IF r = 0 \/ gch[r] = <<>> THEN Summary(r)
                                ELSE Head(gch[r])]
    /\ gch' = [r \in Ranks |-> IF r = 0 \/ gch[r] = <<>> THEN gch[r]
                                ELSE Tail(gch[r])]
    /\ pc' = [pc EXCEPT ![0] = "decide"]
    /\ UNCHANGED <<params, it, i, replica, T, bcount, sch, Tlist, fx, index, p, last,
                   data, saves>>

(* COMM.gather on rank 0: one summary of every rank, in rank order *)
GatherRoot ==
    /\ pc[0] = "trial"
    /\ i[0] >= Reps
    /\ \A r \in Ranks \ {0} : gch[r] # <<>>
    /\ msg' = [r \in Ranks |-> IF r = 0 THEN Summary(0) ELSE Head(gch[r])]
    /\ gch' = [r \in Ranks |-> IF r = 0 THEN gch[r] ELSE Tail(gch[r])]
    /\ pc' = [pc EXCEPT ![0] = "decide"]
    /\ UNCHANGED <<params, it, i, replica, T, bcount, sch, Tlist, fx, index, p, last,
                   data, saves>>

(* rank 0: T = [...], fx = [...], index = np.argsort(T) *)
ExchangeStart ==
    /\ pc[0] = "decide"
    /\ Tlist' = [r \in Ranks |-> msg[r].T]
    /\ fx' = [r \in Ranks |-> msg[r].best_y]
    /\ index' \in ArgSorts([r \in Ranks |-> msg[r].T])
    /\ p' = 0
    /\ pc' = [pc EXCEPT ![0] = "sweep"]
    /\ UNCHANGED <<params, it, i, replica, T, bcount, gch, sch, msg, last, data, saves>>

(* rank 0: one pass of for i in range(SIZE - 1) *)
ExchangePair ==
    /\ pc[0] = "sweep"
    /\ p < size - 1
    /\ \E u \in UDraws, l \in LogDraws :
         /\ Tlist' = PairBody(Tlist, fx, index, p, theta, u, l)
         /\ last' = [attempted |-> Attempt(u, theta),
                     accepted |-> Accepted(Tlist, fx, index, p, theta, u, l),
                     T1 |-> Tlist[index[p]], T2 |-> Tlist[index[p + 1]]]
    /\ p' = p + 1
    /\ UNCHANGED <<params, pc, it, i, replica, T, bcount, gch, sch, msg, fx, index,
                   data, saves>>

(* rank 0: the for loop is over; data = T; it += 1 *)
ExchangeEnd ==
    /\ pc[0] = "sweep"
    /\ p >= size - 1
    /\ data' = Tlist
    /\ it' = [it EXCEPT ![0] = @ + 1]
    /\ pc' = [pc EXCEPT ![0] = "scatter"]
    /\ UNCHANGED <<params, i, replica, T, bcount, gch, sch, msg, Tlist, fx, index, p,
                   last, saves>>

(* mutant of ScatterRoot: every rank is sent the first element *)
ScatterRootBroadcast ==
    /\ pc[0] = "scatter"
    /\ sch' = [r \in Ranks |-> IF r = 0 THEN sch[r] ELSE Append(sch[r], data[0])]
    /\ T' = [T EXCEPT ![0] = data[0]]
    /\ pc' = [pc EXCEPT ![0] = "cool"]
    /\ msg' = <<>>
    /\ Tlist' = <<>>
    /\ fx' = <<>>
    /\ index' = <<>>
    /\ p' = 0
    /\ last' = NoPass
    /\ UNCHANGED <<params, it, i, replica, bcount, gch, data, saves>>

(* COMM.scatter on rank 0: one element per rank, its own kept; the locals *)
(* of the sweep are dead from here on                                      *)
ScatterRoot ==
    /\ pc[0] = "scatter"
    /\ sch' = [r \in Ranks |-> IF r = 0 THEN sch[r] ELSE Append(sch[r], data[r])]
    /\ T' = [T EXCEPT ![0] = data[0]]
    /\ pc' = [pc EXCEPT ![0] = "cool"]
    /\ msg' = <<>>
    /\ Tlist' = <<>>
    /\ fx' = <<>>
    /\ index' = <<>>
    /\ p' = 0
    /\ last' = NoPass
    /\ UNCHANGED <<params, it, i, replica, bcount, gch, data, saves>>

(* self.T = COMM.scatter(None, root=0) on a rank other than 0 *)
ScatterRecv(r) ==
    /\ r # 0
    /\ pc[r] = "scatter"
    /\ sch[r] # <<>>
    /\ T' = [T EXCEPT ![r] = Head(sch[r])]
    /\ sch' = [sch EXCEPT ![r] = Tail(@)]
    /\ pc' = [pc EXCEPT ![r] = "cool"]
    /\ UNCHANGED <<params, it, i, replica, bcount, gch, root, saves>>

(* mutant of Cooled: the decay is applied twice *)
CooledTwice(t, d) == RMul(RMul(t, d), d)

(* SA.cool_down: self.T *= self._decay *)
Cooled(t, d) == RMul(t, d)

(* mutant of CoolDown: only rank 0 applies the decay *)
CoolDownRootOnly(r) ==
    /\ pc[r] = "cool"
    /\ T' = [T EXCEPT ![r] = IF r = 0 THEN Cooled(@, decay) ELSE @]
    /\ pc' = [pc EXCEPT ![r] = "save"]
    /\ UNCHANGED <<params, it, i, replica, bcount, gch, sch, root, saves>>

(* mutant of CoolDown: the replica also restarts from its best state *)
CoolDownRestart(r) ==
    /\ pc[r] = "cool"
    /\ T' = [T EXCEPT ![r] = Cooled(@, decay)]
    /\ x' = [x EXCEPT ![r] = best_x[r]]
    /\ y' = [y EXCEPT ![r] = best_y[r]]
    /\ pc' = [pc EXCEPT ![r] = "save"]
    /\ UNCHANGED <<params, it, i, best_x, best_y, bcount, gch, sch, root, saves>>

CoolDown(r) ==
    /\ pc[r] = "cool"
    /\ T' = [T EXCEPT ![r] = Cooled(@, decay)]
    /\ pc' = [pc EXCEPT ![r] = "save"]
    /\ UNCHANGED <<params, it, i, replica, bcount, gch, sch, root, saves>>

(* save_var(save_name, self.best_x): pk.dump raises NameError unless the  *)
(* name pk is bound                                                        *)
Save(r) ==
    /\ pc[r] = "save"
    /\ IF pk_bound
       THEN /\ saves' = [saves EXCEPT ![r] = @ + 1]
            /\ pc' = [pc EXCEPT ![r] = "loop"]
       ELSE /\ saves' = saves
            /\ pc' = [pc EXCEPT ![r] = "raised"]
    /\ UNCHANGED <<params, it, i, replica, T, bcount, gch, sch, root>>

(* the while test fails: return self.best_x, self.best_y *)
Return(r) ==
    /\ pc[r] = "loop"
    /\ it[r] >= Iters
    /\ pc' = [pc EXCEPT ![r] = "done"]
    /\ UNCHANGED <<params, it, i, replica, T, bcount, gch, sch, root, saves>>

(* ---------------------------- SA.run ----------------------------------- *)
(* while self.T > self.T_f: self.step() up to its for loop *)
SAEnter ==
    /\ pc[0] = "sa_loop"
    /\ RLess(T_f, T[0])
    /\ pc' = [pc EXCEPT ![0] = "sa_trial"]
    /\ i' = [i EXCEPT ![0] = 0]
    /\ UNCHANGED <<params, it, replica, T, bcount, gch, sch, root, saves>>

(* one Metropolis trial of SA.step *)
SATrial ==
    /\ pc[0] = "sa_trial"
    /\ i[0] < Reps
    /\ \E x_new \in States, l \in LogDraws :
         LET rep == TrialBody(Replica(0), x_new, l)
         IN  /\ x' = [x EXCEPT ![0] = rep.x]
             /\ y' = [y EXCEPT ![0] = rep.y]
             /\ best_x' = [best_x EXCEPT ![0] = rep.best_x]
             /\ best_y' = [best_y EXCEPT ![0] = rep.best_y]
    /\ i' = [i EXCEPT ![0] = @ + 1]
    /\ UNCHANGED <<params, pc, it, T, bcount, gch, sch, root, saves>>

(* step returns; self.cool_down(); it counts the passes of the while loop *)
SACool ==
    /\ pc[0] = "sa_trial"
    /\ i[0] >= Reps
    /\ T' = [T EXCEPT ![0] = Cooled(@, decay)]
    /\ it' = [it EXCEPT ![0] = @ + 1]
    /\ pc' = [pc EXCEPT ![0] = "sa_loop"]
    /\ UNCHANGED <<params, i, replica, bcount, gch, sch, root, saves>>

(* the while test fails: return self.best_x, self.best_y *)
SAReturn ==
    /\ pc[0] = "sa_loop"
    /\ ~RLess(T_f, T[0])
    /\ pc' = [pc EXCEPT ![0] = "sa_done"]
    /\ UNCHANGED <<params, it, i, replica, T, bcount, gch, sch, root, saves>>

Next ==
    \/ \E r \in Ranks : BarrierEnter(r)
    \/ \E r \in Ranks : BarrierExit(r)
    \/ \E r \in Ranks : Trial(r)
    \/ \E r \in Ranks : GatherSend(r)
    \/ GatherRoot
    \/ ExchangeStart
    \/ ExchangePair
    \/ ExchangeEnd
    \/ ScatterRoot
    \/ \E r \in Ranks : ScatterRecv(r)
    \/ \E r \in Ranks : CoolDown(r)
    \/ \E r \in Ranks : Save(r)
    \/ \E r \in Ranks : Return(r)
    \/ SAEnter
    \/ SATrial
    \/ SACool
    \/ SAReturn

Spec == Init /\ [][Next]_vars

(* ---------------------------- the sweep alone -------------------------- *)
(* Rank 0 of a run of 1..MaxSweepN ranks right after COMM.gather of the   *)
(* first outer iteration, the other ranks waiting in COMM.scatter.  The   *)
(* objective is left open here: temperatures are drawn from SweepTs and   *)
(* best costs from SweepCosts.                                             *)
SweepTs == {<<1, 2>>, RInt(1), RInt(2)}
SweepCosts == {3, 5}
SweepThetas == {RInt(0), <<1, 2>>, RInt(1)}

SweepInit ==
    /\ size \in 1 .. MaxSweepN
    /\ pk_bound = TRUE
    /\ theta \in SweepThetas
    /\ decay \in Decays
    /\ T_f = RInt(1)
    /\ pc = [r \in Ranks |-> IF r = 0 THEN "decide" ELSE "scatter"]
    /\ it = [r \in Ranks |-> IF r = 0 THEN 0 ELSE 1]
    /\ i = [r \in Ranks |-> Reps]
    /\ x = [r \in Ranks |-> x0]
    /\ best_x = [r \in Ranks |-> x0]
    /\ best_y \in [Ranks -> SweepCosts]
    /\ y = best_y
    /\ T \in [Ranks -> SweepTs]
    /\ T_i = T
    /\ bcount = [r \in Ranks |-> 1]
    /\ gch = [r \in Ranks |-> <<>>]
    /\ sch = [r \in Ranks |-> <<>>]
    /\ msg = [r \in Ranks |-> [T |-> T[r], best_y |-> best_y[r], rank |-> r, k |-> 0]]
    /\ Tlist = <<>>
    /\ fx = <<>>
    /\ index = <<>>
    /\ p = 0
    /\ last = NoPass
    /\ data = <<>>
    /\ saves = [r \in Ranks |-> 0]

SweepNext == ExchangeStart \/ ExchangePair \/ ExchangeEnd \/ ScatterRoot

SweepSpec == SweepInit /\ [][SweepNext]_vars

(* ---------------------------- one exchange ----------------------------- *)
(* Two-or-fewer ranks from COMM.gather of the first outer iteration to    *)
(* the decay that follows the scatter, with the decay drawn from          *)
(* ExchangeDecays.                                                         *)
ExchangeDecays == {<<1, 2>>, <<9, 10>>}

ExchangeInit ==
    /\ size \in 1 .. MaxN
    /\ pk_bound = TRUE
    /\ theta \in SweepThetas
    /\ decay \in ExchangeDecays
    /\ T_f = RInt(1)
    /\ pc = [r \in Ranks |-> IF r = 0 THEN "decide" ELSE "scatter"]
    /\ it = [r \in Ranks |-> IF r = 0 THEN 0 ELSE 1]
    /\ i = [r \in Ranks |-> Reps]
    /\ x = [r \in Ranks |-> x0]
    /\ best_x = [r \in Ranks |-> x0]
    /\ best_y \in [Ranks -> SweepCosts]
    /\ y = best_y
    /\ T \in [Ranks -> SweepTs]
    /\ T_i = T
    /\ bcount = [r \in Ranks |-> 1]
    /\ gch = [r \in Ranks |-> <<>>]
    /\ sch = [r \in Ranks |-> <<>>]
    /\ msg = [r \in Ranks |-> [T |-> T[r], best_y |-> best_y[r], rank |-> r, k |-> 0]]
    /\ Tlist = <<>>
    /\ fx = <<>>
    /\ index = <<>>
    /\ p = 0
    /\ last = NoPass
    /\ data = <<>>
    /\ saves = [r \in Ranks |-> 0]

ExchangeNext ==
    \/ ExchangeStart
    \/ ExchangePair
    \/ ExchangeEnd
    \/ ScatterRoot
    \/ \E r \in Ranks : ScatterRecv(r)
    \/ \E r \in Ranks : CoolDown(r)

ExchangeSpec == ExchangeInit /\ [][ExchangeNext]_vars

(* ---------------------------- runs with faults ------------------------- *)
FaultNext == Next \/ \E r \in Ranks : TrialFault(r)

FaultSpec == Init /\ [][FaultNext]_vars

(* PTSA.run with faults alone, for the question of who waits for whom:   *)
(* theta = 0 and the temperatures 1, 2, .. of TInits, which the waiting    *)
(* does not depend on                                                      *)
FaultInit ==
    /\ PTSAInit
    /\ theta = RInt(0)
    /\ T = [r \in Ranks |-> RInt(r + 1)]

(* the steps of PTSA.run *)
RunNext ==
    \/ \E r \in Ranks : BarrierEnter(r)
    \/ \E r \in Ranks : BarrierExit(r)
    \/ \E r \in Ranks : Trial(r)
    \/ \E r \in Ranks : GatherSend(r)
    \/ GatherRoot
    \/ ExchangeStart
    \/ ExchangePair
    \/ ExchangeEnd
    \/ ScatterRoot
    \/ \E r \in Ranks : ScatterRecv(r)
    \/ \E r \in Ranks : CoolDown(r)
    \/ \E r \in Ranks : Save(r)
    \/ \E r \in Ranks : Return(r)

FaultRunNext == RunNext \/ \E r \in Ranks : TrialFault(r)

(* every process that can take a step of the program eventually takes one; *)
(* a fault may happen but need not                                         *)
FaultFairSpec == FaultInit /\ [][FaultRunNext]_vars /\ WF_vars(RunNext)

(* ---------------------------- binary64 --------------------------------- *)
(* The arithmetic of line 182 as the interpreter does it: every / + - is  *)
(* an IEEE 754 binary64 operation, rounded to nearest, ties to even.  A   *)
(* number is [sgn, man, ex] with value sgn * man * 2^ex, man a 53-bit     *)
(* natural kept as <<high, low>> limbs of 27 bits (man = 0 for zero).     *)
MaxTenths == 12     \* RateSpec: temperatures are the floats 0.1 .. MaxTenths/10

W27 == 2^27

PDouble(a) == LET l2 == 2 * a[2] IN <<2 * a[1] + l2 \div W27, l2 % W27>>

PLess(a, b) == a[1] < b[1] \/ (a[1] = b[1] /\ a[2] < b[2])

PSub(a, b) ==
    IF a[2] >= b[2] THEN <<a[1] - b[1], a[2] - b[2]>>
    ELSE <<a[1] - b[1] - 1, a[2] + W27 - b[2]>>

PAdd(a, b) == LET l == a[2] + b[2] IN <<a[1] + b[1] + l \div W27, l % W27>>

(* floor(a / 2^k) *)
RECURSIVE PShr(_, _)
PShr(a, k) ==
    IF k = 0 THEN a
    ELSE IF k < 27
         THEN <<a[1] \div 2^k, a[2] \div 2^k + (a[1] % 2^k) * 2^(27 - k)>>
         ELSE PShr(<<a[1] \div W27, a[1] % W27>>, k - 27)

(* a is not a multiple of 2^k *)
RECURSIVE PLost(_, _)
PLost(a, k) ==
    IF k = 0 THEN FALSE
    ELSE IF k < 27 THEN a[2] % 2^k # 0
         ELSE a[2] # 0 \/ PLost(<<a[1] \div W27, a[1] % W27>>, k - 27)

(* the shift with the bits shifted out kept as a sticky lowest bit *)
PShrSticky(a, k) ==
    LET s == PShr(a, k)
    IN  IF PLost(a, k) /\ s[2] % 2 = 0 THEN <<s[1], s[2] + 1>> ELSE s

F64Zero == [sgn |-> 1, man |-> <<0, 0>>, ex |-> 0]

F64IsZero(a) == a.man = <<0, 0>>

(* the number of bits of k, 0 < k < 2^26 *)
BitLen(k) == CHOOSE n \in 1 .. 26 : 2^(n - 1) <= k /\ k < 2^n

(* an int operand (|k| < 2^26) converted for a float operation *)
F64FromInt(k) ==
    IF k = 0 THEN F64Zero
    ELSE LET n == BitLen(Abs(k))
         IN  [sgn |-> IF k > 0 THEN 1 ELSE -1,
              man |-> <<Abs(k) * 2^(26 - n), 0>>,
              ex |-> n - 53]

F64Neg(a) == IF F64IsZero(a) THEN a ELSE [a EXCEPT !.sgn = -a.sgn]

(* the rounded significand m (+1 when up), renormalised on carry *)
RoundPack(s, m, up, e) ==
    LET m1 == IF up THEN PAdd(m, <<0, 1>>) ELSE m
    IN  IF m1[1] >= 2^26 THEN [sgn |-> s, man |-> <<2^25, 0>>, ex |-> e + 1]
        ELSE [sgn |-> s, man |-> m1, ex |-> e]

(* restoring division of r by d, r < d: quotient bits are appended to q  *)
(* until q has 54 bits; the result is <<quotient, remainder>>             *)
RECURSIVE DivLoop(_, _, _)
DivLoop(q, r, d) ==
    IF q[1] >= 2^26 THEN <<q, r>>
    ELSE LET r2 == PDouble(r)
             q2 == PDouble(q)
         IN  IF PLess(r2, d) THEN DivLoop(q2, r2, d)
             ELSE DivLoop(PAdd(q2, <<0, 1>>), PSub(r2, d), d)

(* a / b, b # 0 *)
F64Div(a, b) ==
    IF F64IsZero(a) THEN F64Zero
    ELSE LET adj == IF PLess(a.man, b.man) THEN 1 ELSE 0
             r0 == IF adj = 1 THEN PDouble(a.man) ELSE a.man
             qr == DivLoop(<<0, 1>>, PSub(r0, b.man), b.man)
             m == PShr(qr[1], 1)
             up == qr[1][2] % 2 = 1 /\ (qr[2] # <<0, 0>> \/ m[2] % 2 = 1)
         IN  RoundPack(a.sgn * b.sgn, m, up, a.ex - b.ex - 52 - adj)

F64MagLess(a, b) == a.ex < b.ex \/ (a.ex = b.ex /\ PLess(a.man, b.man))

(* n.man # 0 below 2^56 shifted left until its bit 55 is set *)
RECURSIVE NormUp56(_)
NormUp56(n) ==
    IF n.man[1] >= 2^28 THEN n
    ELSE NormUp56([man |-> PDouble(n.man), ex |-> n.ex - 1])

(* a + b of nonzero a, b with |a| >= |b|: three guard bits, the last sticky *)
F64AddOrdered(a, b) ==
    LET ga == PDouble(PDouble(PDouble(a.man)))
        gb == PShrSticky(PDouble(PDouble(PDouble(b.man))), a.ex - b.ex)
        s0 == IF a.sgn = b.sgn THEN PAdd(ga, gb) ELSE PSub(ga, gb)
    IN  IF s0 = <<0, 0>> THEN F64Zero
        ELSE LET n == IF s0[1] >= 2^29
                      THEN [man |-> PShrSticky(s0, 1), ex |-> a.ex + 1]
                      ELSE NormUp56([man |-> s0, ex |-> a.ex])
                 m == PShr(n.man, 3)
                 low == n.man[2] % 8
                 up == low > 4 \/ (low = 4 /\ m[2] % 2 = 1)
             IN  RoundPack(a.sgn, m, up, n.ex)

(* a + b *)
F64Add(a, b) ==
    IF F64IsZero(a) THEN b
    ELSE IF F64IsZero(b) THEN a
    ELSE IF F64MagLess(a, b) THEN F64AddOrdered(b, a)
    ELSE F64AddOrdered(a, b)

(* the digits of a mantissa in base 2^14, least significant first        *)
Digits14(m) ==
    <<m[2] % 2^14, m[2] \div 2^14 + (m[1] % 2) * 2^13,
      (m[1] \div 2) % 2^14, m[1] \div 2^15>>

(* the sum of the digit products da[j] * db[k + 1 - j] of one column     *)
MulCol(da, db, k) ==
    LET term(j) == IF k + 1 - j \in 1 .. 4 THEN da[j] * db[k + 1 - j] ELSE 0
    IN  term(1) + term(2) + term(3) + term(4)

(* the exact product of two mantissas: eight digits in base 2^14         *)
MulDigits(ma, mb) ==
    LET da == Digits14(ma)
        db == Digits14(mb)
        t1 == MulCol(da, db, 1)
        t2 == MulCol(da, db, 2) + t1 \div 2^14
        t3 == MulCol(da, db, 3) + t2 \div 2^14
        t4 == MulCol(da, db, 4) + t3 \div 2^14
        t5 == MulCol(da, db, 5) + t4 \div 2^14
        t6 == MulCol(da, db, 6) + t5 \div 2^14
        t7 == MulCol(da, db, 7) + t6 \div 2^14
    IN  <<t1 % 2^14, t2 % 2^14, t3 % 2^14, t4 % 2^14, t5 % 2^14, t6 % 2^14,
          t7 % 2^14, t7 \div 2^14>>

(* a * b: the exact product rounded to nearest, ties to even             *)
F64Mul(a, b) ==
    IF F64IsZero(a) \/ F64IsZero(b) THEN F64Zero
    ELSE LET pd == MulDigits(a.man, b.man)
             v == <<pd[6] \div 2^9 + pd[7] * 2^5 + pd[8] * 2^19,
                    pd[4] \div 2^10 + pd[5] * 2^4 + (pd[6] % 2^9) * 2^18>>
             g == (pd[4] \div 2^9) % 2 = 1
             st == pd[4] % 2^9 # 0 \/ pd[3] # 0 \/ pd[2] # 0 \/ pd[1] # 0
         IN  IF v[1] >= 2^26
             THEN LET m == PShr(v, 1)
                  IN  RoundPack(a.sgn * b.sgn, m,
                                v[2] % 2 = 1 /\ (g \/ st \/ m[2] % 2 = 1),
                                a.ex + b.ex + 53)
             ELSE RoundPack(a.sgn * b.sgn, v, g /\ (st \/ v[2] % 2 = 1),
                            a.ex + b.ex + 52)

F64Sgn(a) == IF F64IsZero(a) THEN 0 ELSE a.sgn

(* a < b *)
F64Less(a, b) ==
    IF F64Sgn(a) # F64Sgn(b) THEN F64Sgn(a) < F64Sgn(b)
    ELSE IF F64Sgn(a) = 1 THEN F64MagLess(a, b)
    ELSE IF F64Sgn(a) = -1 THEN F64MagLess(b, a)
    ELSE FALSE

(* the float a temperature n/d of the run is: the one nearest to n/d *)
F64OfRat(t) == F64Div(F64FromInt(t[1]), F64FromInt(t[2]))

(* -fx[sol2] / T[sol1] - fx[sol1] / T[sol2] + fx[sol2] / T[sol2]          *)
(*     + fx[sol1] / T[sol1], left to right, in binary64                    *)
Exponent64(fx1, fx2, T1, T2) ==
    F64Add(F64Add(F64Add(F64Div(F64Neg(fx2), T1), F64Neg(F64Div(fx1, T2))),
                  F64Div(fx2, T2)),
           F64Div(fx1, T1))

(* np.exp(e) < 1 whatever the rounding of exp: e <= -2^-52, so that exp(e) *)
(* lies at least two floats below 1                                        *)
ExpBelowOne(e) == ~F64IsZero(e) /\ e.sgn = -1 /\ e.ex + 52 >= -52

(* np.exp(e) >= 1 whatever the rounding of exp: e >= 0 *)
ExpAtLeastOne(e) == F64IsZero(e) \/ e.sgn = 1

(* the second np.random.random() of a pair: the least and the greatest    *)
(* float it returns, 0.0 and 1 - 2^-53                                     *)
RateDraws == {"least", "greatest"}

(* accept_rate > np.random.random(), for |e| < 512 (exp(e) > 0).  Against *)
(* the greatest draw the test is accept_rate >= 1; for -2^-52 < e < 0 the *)
(* outcome depends on how exp rounds, c is the outcome then               *)
RateGreater(e, v, c) ==
    IF v = "least" THEN TRUE
    ELSE IF ExpAtLeastOne(e) THEN TRUE
    ELSE IF ExpBelowOne(e) THEN FALSE
    ELSE c

RateTs == {Norm(k, 10) : k \in 1 .. MaxTenths}

RateCosts == {3, 5}

(* rank 0 of a two-rank run at the for loop, index computed *)
RateInit ==
    /\ size = 2
    /\ pk_bound = TRUE
    /\ theta = RInt(0)
    /\ decay \in Decays
    /\ T_f = RInt(1)
    /\ pc = [r \in Ranks |-> IF r = 0 THEN "rate" ELSE "scatter"]
    /\ it = [r \in Ranks |-> IF r = 0 THEN 0 ELSE 1]
    /\ i = [r \in Ranks |-> Reps]
    /\ x = [r \in Ranks |-> x0]
    /\ best_x = [r \in Ranks |-> x0]
    /\ best_y \in [Ranks -> RateCosts]
    /\ y = best_y
    /\ T \in [Ranks -> RateTs]
    /\ T_i = T
    /\ bcount = [r \in Ranks |-> 1]
    /\ gch = [r \in Ranks |-> <<>>]
    /\ sch = [r \in Ranks |-> <<>>]
    /\ msg = [r \in Ranks |-> [T |-> T[r], best_y |-> best_y[r], rank |-> r, k |-> 0]]
    /\ Tlist = T
    /\ fx = best_y
    /\ index \in ArgSorts(T)
    /\ p = 0
    /\ last = NoPass
    /\ data = <<>>
    /\ saves = [r \in Ranks |-> 0]

(* rank 0: one pass of for i in range(SIZE - 1), in binary64 *)
RatePair ==
    /\ pc[0] = "rate"
    /\ p < size - 1
    /\ LET sol1 == index[p]
           sol2 == index[p + 1]
           e == Exponent64(F64FromInt(fx[sol1]), F64FromInt(fx[sol2]),
                           F64OfRat(Tlist[sol1]), F64OfRat(Tlist[sol2]))
       IN  \E u \in UDraws, v \in RateDraws, c \in BOOLEAN :
             LET acc == Attempt(u, theta) /\ RateGreater(e, v, c)
             IN  /\ Tlist' = IF acc THEN Swap(Tlist, sol1, sol2) ELSE Tlist
                 /\ last' = [attempted |-> Attempt(u, theta), accepted |-> acc,
                             T1 |-> Tlist[sol1], T2 |-> Tlist[sol2]]
    /\ p' = p + 1
    /\ UNCHANGED <<params, pc, it, i, replica, T, bcount, gch, sch, msg, fx, index,
                   data, saves>>

RateNext == RatePair

RateSpec == RateInit /\ [][RateNext]_vars

(* ---------------------------- SA.run in binary64 ----------------------- *)
(* SA.run on one process with self.T a binary64 number: T[0] is the       *)
(* float, T_i[0], T_f and decay are the decimal parameters the floats     *)
(* are the nearest to.  The parameters are drawn from SACases.            *)
SACases ==
    { [Ti |-> RInt(100), Tf |-> RInt(1), d |-> <<9, 10>>],
      [Ti |-> RInt(1), Tf |-> <<1, 100>>, d |-> <<1, 10>>],
      [Ti |-> RInt(1), Tf |-> <<1, 25>>, d |-> <<1, 5>>],
      [Ti |-> RInt(4), Tf |-> RInt(1), d |-> <<1, 2>>],
      [Ti |-> RInt(1), Tf |-> <<1, 4>>, d |-> <<1, 2>>],
      [Ti |-> RInt(1), Tf |-> <<81, 100>>, d |-> <<9, 10>>],
      [Ti |-> RInt(3), Tf |-> RInt(1), d |-> <<1, 2>>] }

CoolInit ==
    /\ size = 1
    /\ pk_bound = TRUE
    /\ theta = RInt(0)
    /\ \E c \in SACases :
         /\ T_i = [r \in Ranks |-> c.Ti]
         /\ T_f = c.Tf
         /\ decay = c.d
         /\ T = [r \in Ranks |-> F64OfRat(c.Ti)]
    /\ pc = [r \in Ranks |-> "sa64_loop"]
    /\ it = [r \in Ranks |-> 0]
    /\ i = [r \in Ranks |-> 0]
    /\ x = [r \in Ranks |-> x0]
    /\ y = [r \in Ranks |-> obj(x0)]
    /\ best_x = [r \in Ranks |-> x0]
    /\ best_y = [r \in Ranks |-> obj(x0)]
    /\ bcount = [r \in Ranks |-> 0]
    /\ gch = [r \in Ranks |-> <<>>]
    /\ sch = [r \in Ranks |-> <<>>]
    /\ msg = <<>>
    /\ Tlist = <<>>
    /\ fx = <<>>
    /\ index = <<>>
    /\ p = 0
    /\ last = NoPass
    /\ data = <<>>
    /\ saves = [r \in Ranks |-> 0]

(* mutant of SA64Enter: while self.T >= self.T_f *)
SA64EnterInclusive ==
    /\ pc[0] = "sa64_loop"
    /\ ~F64Less(T[0], F64OfRat(T_f))
    /\ pc' = [pc EXCEPT ![0] = "sa64_trial"]
    /\ i' = [i EXCEPT ![0] = 0]
    /\ UNCHANGED <<params, it, replica, T, bcount, gch, sch, root, saves>>

(* while self.T > self.T_f: self.step() up to its for loop *)
SA64Enter ==
    /\ pc[0] = "sa64_loop"
    /\ F64Less(F64OfRat(T_f), T[0])
    /\ pc' = [pc EXCEPT ![0] = "sa64_trial"]
    /\ i' = [i EXCEPT ![0] = 0]
    /\ UNCHANGED <<params, it, replica, T, bcount, gch, sch, root, saves>>

(* one pass of the body of the for loop of step; c is the outcome of      *)
(* np.exp(-df / self.T) > np.random.rand() when df > 0 (for df = 0 the    *)
(* exponential is 1 and the test holds; 0 < exp(-df / T) < 1 for the      *)
(* temperatures of SACases, so both outcomes have a draw)                 *)
TrialBody64(rep, x_new, c) ==
    LET y_new == obj(x_new)
        df == y_new - rep.y
    IN  IF df <= 0 \/ c
        THEN IF Improves(y_new, rep.best_y)
             THEN [rep EXCEPT !.x = x_new, !.y = y_new,
                              !.best_x = x_new, !.best_y = y_new]
             ELSE [rep EXCEPT !.x = x_new, !.y = y_new]
        ELSE rep

(* one Metropolis trial of SA.step *)
SA64Trial ==
    /\ pc[0] = "sa64_trial"
    /\ i[0] < Reps
    /\ \E x_new \in States, c \in BOOLEAN :
         LET rep == TrialBody64(Replica(0), x_new, c)
         IN  /\ x' = [x EXCEPT ![0] = rep.x]
             /\ y' = [y EXCEPT ![0] = rep.y]
             /\ best_x' = [best_x EXCEPT ![0] = rep.best_x]
             /\ best_y' = [best_y EXCEPT ![0] = rep.best_y]
    /\ i' = [i EXCEPT ![0] = @ + 1]
    /\ UNCHANGED <<params, pc, it, T, bcount, gch, sch, root, saves>>

(* step returns; self.T *= self._decay; it counts the passes of the loop *)
SA64Cool ==
    /\ pc[0] = "sa64_trial"
    /\ i[0] >= Reps
    /\ T' = [T EXCEPT ![0] = F64Mul(@, F64OfRat(decay))]
    /\ it' = [it EXCEPT ![0] = @ + 1]
    /\ pc' = [pc EXCEPT ![0] = "sa64_loop"]
    /\ UNCHANGED <<params, i, replica, bcount, gch, sch, root, saves>>

(* the while test fails: return self.best_x, self.best_y *)
SA64Return ==
    /\ pc[0] = "sa64_loop"
    /\ ~F64Less(F64OfRat(T_f), T[0])
    /\ pc' = [pc EXCEPT ![0] = "sa64_done"]
    /\ UNCHANGED <<params, it, i, replica, T, bcount, gch, sch, root, saves>>

CoolNext == SA64Enter \/ SA64Trial \/ SA64Cool \/ SA64Return

CoolSpec == CoolInit /\ [][CoolNext]_vars

(* the next step of the process running SA.run, by its effect on the     *)
(* program counter and on i: it moves on, or stays in the for loop with i *)
(* advanced. Every step of CoolNext is such a step, and one is enabled    *)
(* exactly when CoolNext is, that is until run has returned: the guards   *)
(* of SA64Enter and SA64Return are complementary, and so are those of     *)
(* SA64Trial and SA64Cool.                                                 *)
SA64Progress ==
    /\ pc[0] # "sa64_done"
    /\ \/ \E q \in {"sa64_loop", "sa64_trial", "sa64_done"} \ {pc[0]} :
             /\ pc' = [pc EXCEPT ![0] = q]
             /\ i' \in {i, [i EXCEPT ![0] = 0]}
       \/ pc' = pc /\ i' = [i EXCEPT ![0] = @ + 1]

(* the process running SA.run is scheduled as long as it can step *)
CoolFairSpec == CoolSpec /\ WF_<<pc, i>>(SA64Progress)

(* ======================================================================= *)
(* Properties                                                              *)
(* ======================================================================= *)
(* the multiset of the values of a list *)
BagOfFn(f) ==
    [v \in {f[r] : r \in DOMAIN f} |-> Cardinality({r \in DOMAIN f : f[r] = v})]

(* the temperatures and best costs captured by COMM.gather *)
GatheredT == [r \in Ranks |-> msg[r].T]
GatheredFx == [r \in Ranks |-> msg[r].best_y]

(* rank 0 is inside the for loop of the sweep, about to run pair p *)
AtPair == pc[0] = "sweep" /\ p < size - 1

(* C1: the list rank 0 passes to COMM.scatter, and the list T at every    *)
(* point of the sweep, hold the same multiset of temperatures as the      *)
(* gathered list: values are reassigned, never created, duplicated, lost. *)
C1_SweepPreservesMultiset ==
    /\ pc[0] = "sweep" => BagOfFn(Tlist) = BagOfFn(GatheredT)
    /\ pc[0] = "scatter" => BagOfFn(data) = BagOfFn(GatheredT)

(* C1 witness: three ranks with three different temperatures, and the     *)
(* list about to be scattered differs from the gathered one               *)
C1_Witness ==
    /\ pc[0] = "scatter"
    /\ size = 3
    /\ Cardinality({GatheredT[r] : r \in Ranks}) = 3
    /\ data # GatheredT

(* C2 as claimed: the operands T[sol1], T[sol2], fx[sol1], fx[sol2] read  *)
(* by every attempted pair are the values captured by COMM.gather.        *)
C2_OperandsAreGathered ==
    [][(AtPair /\ p' = p + 1 /\ last'.attempted) =>
          /\ last'.T1 = GatheredT[index[p]]
          /\ last'.T2 = GatheredT[index[p + 1]]
          /\ fx[index[p]] = GatheredFx[index[p]]
          /\ fx[index[p + 1]] = GatheredFx[index[p + 1]]]_vars

(* C2 amended: at every pair the best costs and the temperature of the    *)
(* higher sorted position are the gathered values; the temperature of the *)
(* lower position is the gathered value unless the previous pair was      *)
(* swapped, and then it is the temperature the previous pair read as its  *)
(* own T[sol1] (T is updated in place, index is computed once).           *)
C2_OperandsInPlace ==
    AtPair =>
      /\ fx = GatheredFx
      /\ Tlist[index[p + 1]] = GatheredT[index[p + 1]]
      /\ Tlist[index[p]] = IF p > 0 /\ last.accepted
                           THEN last.T1
                           ELSE GatheredT[index[p]]

(* C2 witness: a pair whose predecessor was swapped, so that the lower    *)
(* temperature it is about to read is not the one gathered for it         *)
C2_Witness ==
    /\ AtPair
    /\ p > 0
    /\ last.accepted
    /\ Tlist[index[p]] # GatheredT[index[p]]

(* C3: the list rank 0 decides on holds one summary per rank, at its own  *)
(* position, built in the outer iteration rank 0 is in, after that rank's *)
(* trials of the iteration, and it is what the rank still holds.          *)
C3_SummariesOfOneIteration ==
    pc[0] \in {"decide", "sweep"} =>
      /\ DOMAIN msg = Ranks
      /\ \A r \in Ranks :
           /\ msg[r].rank = r
           /\ msg[r].k = it[0]
           /\ i[r] = Reps
           /\ msg[r].T = T[r]
           /\ msg[r].best_y = best_y[r]
           /\ r # 0 => pc[r] = "scatter" /\ it[r] = it[0] + 1

(* C3 witness: rank 0 of a two-rank run decides in its second iteration *)
C3_Witness == pc[0] = "decide" /\ size = 2 /\ it[0] = 1

(* the outer iterations rank q has gone through up to and including its   *)
(* decay (it is incremented before scatter)                                *)
Completed(q) == IF pc[q] \in {"scatter", "cool"} THEN it[q] - 1 ELSE it[q]

(* C4: a rank that is past the Barrier of an outer iteration, at its      *)
(* trials, finds every rank past the decay of the iteration before, and   *)
(* every rank has entered that Barrier.                                    *)
C4_BarrierSeparatesIterations ==
    \A r, q \in Ranks :
        pc[r] = "trial" => Completed(q) >= it[r] /\ bcount[q] >= bcount[r]

(* C4 witness: a rank of a two-rank run at the trials of its second       *)
(* iteration                                                               *)
C4_Witness == size = 2 /\ \E r \in Ranks : pc[r] = "trial" /\ it[r] = 1 /\ i[r] = 0

(* C5 as claimed: no rank leaves run by an exception, a rank that returns *)
(* has made exactly Iters iterations with one Barrier and one save each,  *)
(* and the run is never stuck before every rank has returned.             *)
C5_EveryRankRunsItersIterations ==
    /\ \A r \in Ranks : pc[r] # "raised"
    /\ \A r \in Ranks :
         pc[r] = "done" => it[r] = Iters /\ saves[r] = Iters /\ bcount[r] = Iters
    /\ (\A r \in Ranks : pc[r] \in {"done", "sa_done"}) \/ ENABLED Next

(* C6: best_y <= y for every replica in every state *)
C6_BestLeqCurrent == \A r \in Ranks : best_y[r] <= y[r]

(* C6 witness: a replica that has gone through two iterations and holds a *)
(* current cost above its best cost                                        *)
C6_Witness == \E r \in Ranks : pc[r] = "save" /\ it[r] = 2 /\ best_y[r] < y[r]

(* C7: no step raises the best cost of any replica *)
C7_BestNeverIncreases == [][\A r \in Ranks : best_y'[r] <= best_y[r]]_vars

(* C7 witness: a replica returns with a best cost below the initial cost  *)
(* and a current cost above its best cost                                  *)
C7_Witness ==
    \E r \in Ranks : pc[r] = "done" /\ best_y[r] < obj(x0) /\ best_y[r] < y[r]

(* C8: from its decay to the end of the outer iteration a rank holds      *)
(* decay times the element of the scattered list at its own position;     *)
(* between receipt and decay it holds that element; a rank is sent one    *)
(* value, that element; the scattered list holds gathered temperatures.   *)
C8_DecayOfScattered ==
    /\ \A r \in Ranks :
         (pc[r] \in {"save", "loop", "barrier", "done", "raised"} /\ it[r] >= 1)
            => T[r] = RMul(decay, data[r])
    /\ \A r \in Ranks : pc[r] = "cool" => T[r] = data[r]
    /\ \A r \in Ranks : sch[r] # <<>> => sch[r] = <<data[r]>>
    /\ pc[0] = "scatter" => \A r \in Ranks : \E q \in Ranks : data[r] = GatheredT[q]

(* C8 witness: rank 1 of a two-rank run after the decay of a sweep that   *)
(* exchanged the temperatures 1 and 2                                      *)
C8_Witness ==
    /\ size = 2
    /\ pc[1] = "save"
    /\ it[1] = 1
    /\ data = [r \in Ranks |-> RInt(2 - r)]
    /\ T[1] = <<1, 2>>

(* a step of rank r that belongs to the gather, the exchange decision,    *)
(* the scatter or the decay                                                *)
ExchangePhase(r) ==
    \/ pc[r] \in {"decide", "sweep", "scatter", "cool"}
    \/ pc[r] = "trial" /\ i[r] >= Reps

(* C9: the steps of gather, exchange decision, scatter and decay leave    *)
(* x, y, best_x and best_y of every replica unchanged.                     *)
C9_ExchangeChangesOnlyT ==
    [][(\E r \in Ranks : ExchangePhase(r) /\ (pc'[r] # pc[r] \/ p' # p))
          => (x' = x /\ y' = y /\ best_x' = best_x /\ best_y' = best_y)]_vars

(* C9 witness: rank 0 of a two-rank run holds the decayed temperature of  *)
(* the other rank while the two replicas differ in state and best cost    *)
C9_Witness ==
    /\ size = 2
    /\ pc[0] = "save"
    /\ it[0] = 1
    /\ T[0] = RMul(decay, RInt(2))
    /\ x[0] # x[1]
    /\ best_y[0] # best_y[1]

(* the pair rank 0 is at in RateSpec has equal best costs *)
AtTie == pc[0] = "rate" /\ p < size - 1 /\ fx[index[p]] = fx[index[p + 1]]

(* C10 as claimed: at a pair of equal best costs that is not skipped,     *)
(* accept_rate is not below 1 and the pair's temperatures are swapped     *)
(* whatever the second draw.                                               *)
C10_TieAlwaysSwaps ==
    [][(AtTie /\ p' = p + 1 /\ last'.attempted)
          => /\ ~ExpBelowOne(Exponent64(F64FromInt(fx[index[p]]),
                                        F64FromInt(fx[index[p + 1]]),
                                        F64OfRat(Tlist[index[p]]),
                                        F64OfRat(Tlist[index[p + 1]])))
             /\ Tlist'[index[p]] = Tlist[index[p + 1]]
             /\ Tlist'[index[p + 1]] = Tlist[index[p]]]_vars

(* the scenario of C11 at the end of the sweep of rank 0, pair not        *)
(* skipped: T = [1, 2], best costs [5, 3], theta = 0, decay = 9/10        *)
ScenarioSwept ==
    /\ size = 2
    /\ pc[0] = "scatter"
    /\ msg # <<>>
    /\ GatheredT = [r \in Ranks |-> RInt(r + 1)]
    /\ GatheredFx = [r \in Ranks |-> 5 - 2 * r]
    /\ theta = RInt(0)
    /\ decay = <<9, 10>>
    /\ last.attempted

(* the scenario of C11 before the pass of its only pair *)
ScenarioAtPair ==
    /\ size = 2
    /\ AtPair
    /\ GatheredT = [r \in Ranks |-> RInt(r + 1)]
    /\ GatheredFx = [r \in Ranks |-> 5 - 2 * r]

RECURSIVE Least(_, _, _, _)
Least(t, tf, d, k) ==
    IF ~RLess(tf, t) THEN k ELSE Least(RMul(t, d), tf, d, k + 1)

(* ceil(log(tf / ti) / log(d)), the least k with ti * d^k <= tf; for     *)
(* ti = 100, tf = 1, d = 9/10 the quotient of logarithms is 43.7.. and    *)
(* the value is 44 (100 * 0.9^43 = 1.077.., 100 * 0.9^44 = 0.969..)       *)
ClosedForm(ti, tf, d) ==
    IF ti = RInt(100) /\ tf = RInt(1) /\ d = <<9, 10>> THEN 44
    ELSE Least(ti, tf, d, 0)

(* SA.run has returned *)
SA64Done == pc[0] = "sa64_done"

RECURSIVE RPow(_, _)
RPow(d, k) == IF k = 0 THEN RInt(1) ELSE RMul(d, RPow(d, k - 1))

(* the run is PTSA.run (not SA.run) on a single process *)
SingleReplica == size = 1 /\ pc[0] \notin {"sa_loop", "sa_trial", "sa_done"}

Faulted(f) == pc[f] \in {"faulted", "raised"} /\ it[f] < Iters

(* the number of times COMM.scatter has returned on rank r *)
ScattersDone(r) == IF pc[r] = "scatter" THEN it[r] - 1 ELSE it[r]

(* rank r waits in a collective: rank 0 in COMM.gather for a summary, any *)
(* other rank in COMM.scatter for its element                              *)
Blocked(r) ==
    IF r = 0
    THEN pc[0] = "trial" /\ i[0] >= Reps /\ \E q \in Ranks \ {0} : gch[q] = <<>>
    ELSE pc[r] = "scatter" /\ sch[r] = <<>>

(* C14: once a rank has faulted before its gather of iteration k, no     *)
(* rank ever gets the scattered temperature of iteration k and no other   *)
(* rank ever returns from run; after a fault in the trials, a rank that   *)
(* waits in gather or scatter never leaves it.                            *)
C14_FaultStallsTheGroup ==
    /\ [](\A f \in Ranks : Faulted(f) =>
            \A r \in Ranks : /\ ScattersDone(r) <= it[f]
                             /\ r # f => pc[r] # "done")
    /\ [][\A f \in Ranks : pc[f] = "faulted" =>
            \A r \in Ranks \ {f} : Blocked(r) => pc'[r] = pc[r] /\ Blocked(r)']_vars

(* beyond C14: under weak fairness of the steps of the program, a fault  *)
(* in the trials leads to a state from which every rank that has not      *)
(* faulted waits in gather or scatter for ever                             *)
FaultEndsInStall ==
    (\E f \in Ranks : pc[f] = "faulted")
        ~> [](\A r \in Ranks : Blocked(r) \/ pc[r] = "faulted")

(* C14 witness: rank 1 has faulted in the trials of the second iteration *)
(* and rank 0 waits for its summary in COMM.gather                         *)
C14_Witness ==
    /\ size = 2
    /\ pc[1] = "faulted"
    /\ it[1] = 1
    /\ Blocked(0)
    /\ ScattersDone(0) = 1

(* C15: on every rank, from construction on and after any number of     *)
(* accepted and rejected trials, y is the objective of x.                 *)
C15_CostIsObjectiveOfState == \A r \in Ranks : y[r] = obj(x[r])

(* C15 witness: a rank has finished the trials of a step, having left    *)
(* its best state by an accepted uphill move                               *)
C15_Witness ==
    \E r \in Ranks :
        /\ pc[r] = "trial"
        /\ i[r] = Reps
        /\ x[r] # best_x[r]
        /\ y[r] = obj(x[r])
        /\ best_y[r] < y[r]

(* rank r is about to run a pass of the for loop of step *)
AtTrial(r) == pc[r] \in {"trial", "sa_trial"} /\ i[r] < Reps

(* u < exp(e) for the draw u with logarithm l *)
DrawBelowExp(l, e) == l = NegInf \/ RLess(l, e)

(* the trial of rank r with candidate x_new and draw l follows the rule: *)
(* accepted for every draw when delta < 0, and when delta >= 0 exactly    *)
(* when u < exp(-delta / T); an accepted candidate becomes (x, y), and    *)
(* (best_x, best_y) exactly when y_new < best_y; a rejected one changes   *)
(* nothing                                                                 *)
TrialFollowsRule(r, x_new, l) ==
    LET out == TrialBody(Replica(r), x_new, l)
        y_new == obj(x_new)
        delta == y_new - y[r]
        accepted == delta < 0 \/ DrawBelowExp(l, RDiv(RInt(-delta), T[r]))
    IN  /\ out.T = T[r]
        /\ IF accepted
           THEN /\ out.x = x_new /\ out.y = y_new
                /\ IF y_new < best_y[r]
                   THEN out.best_x = x_new /\ out.best_y = y_new
                   ELSE out.best_x = best_x[r] /\ out.best_y = best_y[r]
           ELSE out = Replica(r)

(* C16: every trial a rank can make, of SA.step and of PTSA.step, follows *)
(* the rule for every candidate and every draw, and the step that makes   *)
(* it installs the outcome of one such trial and leaves every T alone.    *)
C16_TrialFollowsMetropolisRule ==
    /\ [](\A r \in Ranks : AtTrial(r) =>
            \A x_new \in States, l \in LogDraws : TrialFollowsRule(r, x_new, l))
    /\ [][\A r \in Ranks : AtTrial(r) /\ i'[r] = i[r] + 1 =>
            /\ T' = T
            /\ \E x_new \in States, l \in LogDraws :
                 LET out == TrialBody(Replica(r), x_new, l)
                 IN  /\ x'[r] = out.x /\ y'[r] = out.y
                     /\ best_x'[r] = out.best_x /\ best_y'[r] = out.best_y]_vars

(* C16 witness: after an earlier accepted trial a rank is about to try   *)
(* an uphill candidate that one draw accepts and another rejects          *)
C16_Witness ==
    \E r \in Ranks :
        /\ AtTrial(r)
        /\ x[r] # x0
        /\ \E x_new \in States, l1, l2 \in LogDraws :
             /\ obj(x_new) > y[r]
             /\ TrialBody(Replica(r), x_new, l1).x = x_new
             /\ TrialBody(Replica(r), x_new, l2) = Replica(r)

(* C17 as stated: a pass of the loop of the sweep attempts its pair      *)
(* whatever the draw when theta = 0, and when theta = 1 skips it whatever *)
(* the draw and leaves the list of temperatures as it was.                *)
C17_ThetaZeroNeverSkips ==
    [][AtPair /\ p' = p + 1 =>
         /\ theta = RInt(0) => last'.attempted
         /\ theta = RInt(1) => ~last'.attempted /\ Tlist' = Tlist]_vars

(* the number of calls of step that have returned on rank r: it counts   *)
(* them, except on rank 0 between gather and it += 1                       *)
StepsCompleted(r) == IF pc[r] \in {"decide", "sweep"} THEN it[r] + 1 ELSE it[r]

(* C18 as stated: a rank is at the Barrier of an outer iteration only    *)
(* after its AnnealingStep of that iteration is complete.                 *)
C18_BarrierAfterAnnealingStep ==
    \A r \in Ranks : pc[r] = "barrier" => StepsCompleted(r) = bcount[r]

(* the moves of the program counter of rank r within run *)
PhaseSteps(r) ==
    {<<"loop", "barrier">>, <<"barrier", "trial">>,
     <<"scatter", "cool">>, <<"cool", "save">>, <<"save", "loop">>,
     <<"save", "raised">>, <<"loop", "done">>,
     <<"sa_loop", "sa_trial">>, <<"sa_trial", "sa_loop">>, <<"sa_loop", "sa_done">>}
    \cup (IF r = 0
          THEN {<<"trial", "decide">>, <<"decide", "sweep">>, <<"sweep", "scatter">>}
          ELSE {<<"trial", "scatter">>})

(* C18 amended: in every outer iteration a rank goes through Barrier,    *)
(* the trials of its AnnealingStep, gather, the exchange decision (rank 0 *)
(* only), scatter and decay, in this order: the Barrier opens the         *)
(* iteration, before any trial of it, and the summary is sent once the    *)
(* trials of the iteration are over.                                      *)
C18_BarrierOpensTheIteration ==
    /\ [][\A r \in Ranks : pc'[r] # pc[r] => <<pc[r], pc'[r]>> \in PhaseSteps(r)]_vars
    /\ [](\A r \in Ranks : pc[r] = "barrier" => StepsCompleted(r) = bcount[r] - 1)
    /\ [][\A r \in Ranks : pc[r] = "barrier" /\ pc'[r] # "barrier" => i'[r] = 0]_vars
    /\ [][\A r \in Ranks : pc[r] = "trial" /\ pc'[r] # "trial" => i[r] >= Reps]_vars

(* C18 witness: a rank is at the Barrier of the second iteration with    *)
(* one call of step complete                                               *)
C18_Witness ==
    \E r \in Ranks :
        /\ pc[r] = "barrier"
        /\ bcount[r] = 2
        /\ StepsCompleted(r) = 1
        /\ i[r] = Reps

(* the sweep is over and rank 0 is about to scatter the list data *)
Swept == pc[0] = "scatter" /\ msg # <<>>

(* C19: at every pair of the sweep the temperature the replica of the    *)
(* lower sorted position holds in the list is at most that of the higher  *)
(* position, and after the sweep the replica at sorted position j holds   *)
(* at most the temperature gathered at sorted position j + 1.             *)
C19_RisesAtMostOnePosition ==
    /\ AtPair => ~RLess(Tlist[index[p + 1]], Tlist[index[p]])
    /\ Swept => \A j \in 0 .. size - 2 :
                   ~RLess(GatheredT[index[j + 1]], data[index[j]])

(* C19 witness: after a sweep over three replicas with distinct          *)
(* temperatures the coldest temperature is held by the replica of the     *)
(* highest sorted position, and each of the others holds the temperature  *)
(* gathered one position above its own                                     *)
C19_Witness ==
    /\ Swept
    /\ size = 3
    /\ RLess(GatheredT[index[0]], GatheredT[index[1]])
    /\ RLess(GatheredT[index[1]], GatheredT[index[2]])
    /\ data[index[2]] = GatheredT[index[0]]
    /\ data[index[0]] = GatheredT[index[1]]
    /\ data[index[1]] = GatheredT[index[2]]

(* every rank was constructed with the same T_i (decay is one parameter *)
(* of the run)                                                             *)
UniformStart == \A r, q \in Ranks : T_i[r] = T_i[q]

(* C20: when every rank starts from the same T_i, a rank that has        *)
(* completed k outer iterations holds T_i * d^k, whatever theta and the   *)
(* draws, and the list rank 0 scatters is the list it gathered.           *)
C20_EqualStartStaysEqual ==
    /\ UniformStart =>
         \A r \in Ranks : T[r] = RMul(T_i[r], RPow(decay, Completed(r)))
    /\ UniformStart /\ Swept => data = GatheredT
    /\ UniformStart =>
         \A r, q \in Ranks : Completed(r) = Completed(q) => T[r] = T[q]

(* C20 witness: in the second iteration of two ranks with equal T_i the  *)
(* pair has been swapped and the list to scatter holds T_i * d twice      *)
C20_Witness ==
    /\ size = 2
    /\ UniformStart
    /\ Swept
    /\ it[0] = 2
    /\ last.accepted
    /\ data = [r \in Ranks |-> RMul(T_i[r], decay)]

====
